---- MODULE Spec2Model ----
(***************************************************************************)
(* The mock-interview service of src/LLM: the engine AIRecruiter           *)
(* (recruiter_core.py) and the HTTP layer with its in-memory session_store *)
(* (main.py).                                                              *)
(*                                                                         *)
(* Texts are sequences of tokens (words, blanks, punctuation); lower(),    *)
(* strip() and the substring test `in` are computed on them.               *)
(*                                                                         *)
(* Scheduling: start and continue are `async def` endpoints whose body     *)
(* holds no await, so each runs on the event loop from its first line to   *)
(* its return and the blocking host call keeps the loop (variable loop).   *)
(* terminate is a plain `def` endpoint: the framework runs it on a worker  *)
(* thread, so its two statements interleave with whatever the loop runs.   *)
(*                                                                         *)
(* The host library (ollama) is not part of the repository: a call of      *)
(* client.chat either raises RequestError, raises another exception, or    *)
(* returns a response, and the names the code uses resolve as written.     *)
(***************************************************************************)
EXTENDS Integers, Sequences, FiniteSets, TLC

\* ---------------------------------------------------------------- bounds
MaxInFlight == 2
MaxSessions == 2
MaxRequests == 3
\* the lines the candidate types in the command-line loop
MaxInputs == 3

Slots == 1..MaxInFlight
SessionIds == 1..MaxSessions

\* a session id that uuid4 never generates
UnknownId == 0

\* ---------------------------------------------------------------- texts
WS == " "

\* the tokens of the texts below that hold an upper-case letter
LowerTable ==
  [Error |-> "error", Interview |-> "interview", Concluded |-> "concluded",
   Hello |-> "hello", No |-> "no", An |-> "an", Received |-> "received",
   Ollama |-> "ollama", Please |-> "please", Begin |-> "begin",
   Backend |-> "backend", Engineer |-> "engineer", You |-> "you",
   Recruiter |-> "recruiter", END |-> "end", INTERVIEW |-> "interview",
   End |-> "end", The |-> "the", Software |-> "software"]

\* str.lower() on one token
LowerTok(t) == IF t \in DOMAIN LowerTable THEN LowerTable[t] ELSE t

\* str.lower()
Lower(s) == [i \in 1..Len(s) |-> LowerTok(s[i])]

\* the tokens of the texts below that hold a lower-case letter
UpperTable ==
  [End |-> "END", end |-> "END", interview |-> "INTERVIEW",
   Interview |-> "INTERVIEW", answer |-> "ANSWER"]

\* str.upper() on one token
UpperTok(t) == IF t \in DOMAIN UpperTable THEN UpperTable[t] ELSE t

\* str.upper()
Upper(s) == [i \in 1..Len(s) |-> UpperTok(s[i])]

\* `needle in hay` on strings
Contains(hay, needle) ==
  \E i \in 0..(Len(hay) - Len(needle)) :
     \A j \in 1..Len(needle) : hay[i + j] = needle[j]

\* str.strip()
Strip(s) ==
  LET nonblank == {i \in 1..Len(s) : s[i] # WS}
  IN  IF nonblank = {} THEN <<>>
      ELSE LET lo == CHOOSE i \in nonblank : \A k \in nonblank : i <= k
               hi == CHOOSE i \in nonblank : \A k \in nonblank : k <= i
           IN  SubSeq(s, lo, hi)

SYSTEM_PROMPT == <<"You", WS, "are", WS, "a", WS, "Recruiter">>

GuidanceReply ==
  <<"Please", WS, "provide", WS, "a", WS, "response", WS, "before", WS,
    "continuing", WS, "the", WS, "interview", ".">>

EmptyReplyError == <<"Error", ":", WS, "Received", WS, "an", WS, "empty", WS, "response">>

RequestErrorReply(e) == <<"Error", WS, "connecting", WS, "to", WS, "Ollama", ":", WS>> \o e

\* a variant whose wording lost the word "error"
UnexpectedFailureReply(e) == <<"An", WS, "unexpected", WS, "failure", WS, "occurred", ":", WS>> \o e

UnexpectedErrorReply(e) == <<"An", WS, "unexpected", WS, "error", WS, "occurred", ":", WS>> \o e

StartPrompt(role) == <<"Begin", WS, "the", WS, "mock", WS, "interview", WS, "for", ":", WS>> \o role

\* str(e) of the KeyError that `del session_store[session_id]` raises: the
\* repr of the key
KeyErrorText(sid) == <<"'", ToString(sid), "'">>

\* f"An internal server error occurred: {e}"
InternalErrorDetail(e) ==
  <<"An", WS, "internal", WS, "server", WS, "error", WS, "occurred", ":", WS>> \o e

\* f"Internal Server Error: {e}" of the logging middleware
MiddlewareErrorDetail(e) == <<"Internal", WS, "Server", WS, "Error", ":", WS>> \o e

\* the text the clients send to finish an interview
EndInterview == <<"END", WS, "INTERVIEW">>

\* final_prompt of the command-line loop
FinalPrompt ==
  <<"The", WS, "candidate", WS, "is", WS, "finished", ".", WS,
    "Please", WS, "conclude", WS, "the", WS, "interview", ".">>

\* job_role of the command-line loop
CliRole == <<"Backend", WS, "Software", WS, "Engineer">>

\* ---------------------------------------------------------------- inputs
\* what the candidate types at the prompt of the command-line loop
CliInputs ==
  {<<>>, <<WS, "answer">>, EndInterview, <<WS, "End", WS, "interview", WS>>}

Roles == {<<"Backend", WS, "Engineer">>}

\* "", " ", " answer" and the command the clients send to finish
CandidateTexts == {<<>>, <<WS>>, <<WS, "answer">>, EndInterview}

\* the content of a response the host returns ("" included)
HostContents ==
  {<<>>,
   <<"Hello">>,
   <<"Interview", WS, "Concluded">>,
   <<"interview", WS, "finished">>,
   <<"No", WS, "Error", ".", WS, "Interview", WS, "concluded">>}

\* str(e) of an exception the host call raises
ExcTexts == {<<"refused">>}

\* what one call of client.chat does
HostOutcomes ==
  {[kind |-> "request_error", text |-> e] : e \in ExcTexts}
    \cup {[kind |-> "exception", text |-> e] : e \in ExcTexts}
    \cup {[kind |-> "malformed", text |-> <<>>]}
    \cup {[kind |-> "content", text |-> t] : t \in HostContents}

Turn(role, content) == [role |-> role, content |-> content]

\* session_store: the dict of main.py, session id -> engine
\* conversation_history: each engine's turn sequence (<<>>: no such engine)
\* nextId: the next value of uuid4, never one it gave before
\* req: the requests in flight, one per slot; a slot carries no identity
\* loop: the slot whose handler holds the event loop, 0 when it is free
\* last: the response returned most recently, with the text of the request
\*   it answers; prev is the status of the
\*   response before it when that one answered the same kind of request on
\*   the same session id, and 0 otherwise; active is the active_sessions
\*   number of a health response; detail is the "detail" text in the body of
\*   a 500 response
\* sent: the number of requests sent so far
\* serving: the application is between the two halves of its lifespan
\* removed: history of the registry, the ids whose entry was deleted by a
\*   terminate or by a completion
\* cli: the command-line loop of recruiter_core.main: its position, its
\*   engine's history, interviewer_prompt, the line read last, the number of
\*   lines read and the number of calls of client.chat
\* ui: st.session_state of one browser session of app.py (session_id, 0 for
\*   None, and interview_active), the handler that ran last and its position,
\*   the slot of the request it waits for, and what the server did with the
\*   session while it produced the 200 that answered the handler's continue
\*   ("none": no such response)
VARIABLES session_store, conversation_history, nextId, req, loop, last, sent,
          serving, removed, cli, ui

vars ==
  <<session_store, conversation_history, nextId, req, loop, last, sent, serving,
    removed, cli, ui>>

server_vars ==
  <<session_store, conversation_history, nextId, req, loop, last, sent, serving,
    removed>>

NoCli ==
  [pc |-> "init", history |-> <<>>, interviewer_prompt |-> <<>>,
   input |-> <<>>, typed |-> 0, calls |-> 0]

NoUi ==
  [session_id |-> 0, interview_active |-> FALSE, handler |-> "none",
   pc |-> "idle", slot |-> 0, answered |-> "none"]

NoRequest ==
  [kind |-> "none", pc |-> "free", sid |-> 0, text |-> <<>>, reply |-> <<>>,
   host |-> "none", h0 |-> 0]

NoResponse ==
  [kind |-> "none", sid |-> 0, text |-> <<>>, status |-> 0, prev |-> 0,
   active |-> 0, detail |-> <<>>]

Init ==
  /\ session_store = [s \in {} |-> 0]
  /\ conversation_history = [e \in SessionIds |-> <<>>]
  /\ nextId = 1
  /\ req = [c \in Slots |-> NoRequest]
  /\ loop = 0
  /\ last = NoResponse
  /\ sent = 0
  /\ serving = TRUE
  /\ removed = {}
  /\ cli = NoCli
  /\ ui = NoUi

\* ---------------------------------------------------------------- engine
\* a variant that passes the system instruction with each call instead of
\* keeping it in the history
NewHistoryUnseeded == <<>>

\* AIRecruiter.__init__: the history starts with the system instruction
NewHistory == <<Turn("system", SYSTEM_PROMPT)>>

\* a variant that takes any content, the empty string included
IsUsableContentAny(out) == out.kind = "content"

\* `if interviewer_reply:` on response.get('message', {}).get('content')
IsUsableContent(out) == out.kind = "content" /\ out.text # <<>>

\* a variant in which the history list is one object shared by the engines
AppendTurnShared(histories, engine, turn) ==
  [e \in DOMAIN histories |->
     IF histories[e] # <<>> THEN Append(histories[e], turn) ELSE histories[e]]

\* a variant that keeps a window: the system turn and the two latest turns
AppendTurnWindow(histories, engine, turn) ==
  [histories EXCEPT ![engine] =
     IF Len(@) >= 3 THEN <<@[1]>> \o SubSeq(@, Len(@) - 1, Len(@)) \o <<turn>>
     ELSE Append(@, turn)]

\* self.conversation_history.append(turn) on one engine
AppendTurn(histories, engine, turn) ==
  [histories EXCEPT ![engine] = Append(@, turn)]

\* a variant that records the error text as an assistant turn
GetResponseRecordsError(histories, engine, out) ==
  LET reply == IF out.kind = "request_error" THEN RequestErrorReply(out.text)
               ELSE IF out.kind = "exception" THEN UnexpectedErrorReply(out.text)
               ELSE IF IsUsableContent(out) THEN out.text
               ELSE EmptyReplyError
  IN  [reply |-> reply,
       histories |-> [histories EXCEPT ![engine] = Append(@, Turn("assistant", reply))]]

\* AIRecruiter._get_response on one engine: the reply it returns and the
\* histories it leaves
GetResponse(histories, engine, out) ==
  IF out.kind = "request_error"
    THEN [reply |-> RequestErrorReply(out.text), histories |-> histories]
  ELSE IF out.kind = "exception"
    THEN [reply |-> UnexpectedErrorReply(out.text), histories |-> histories]
  ELSE IF IsUsableContent(out)
    THEN [reply |-> out.text,
          histories |-> AppendTurn(histories, engine, Turn("assistant", out.text))]
  ELSE [reply |-> EmptyReplyError, histories |-> histories]

\* a variant that records the candidate text stripped of its outer blanks
UserTurnStripped(text) == Turn("user", Strip(text))

\* {"role": "user", "content": candidate_reply}
UserTurn(text) == Turn("user", text)

\* a variant without strip(): only the empty string is blank
IsBlankNoStrip(text) == text = <<>>

\* `if not candidate_reply.strip():`
IsBlank(text) == Strip(text) = <<>>

\* ---------------------------------------------------------------- HTTP layer
\* a variant without lower(): `"error" in reply`
IsErrorReplyCaseSensitive(reply) == Contains(reply, <<"error">>)

\* `"error" in reply.lower()`
IsErrorReply(reply) == Contains(Lower(reply), <<"error">>)

\* a variant without lower() on the completion test
IsConcludedCaseSensitive(reply) ==
  \/ Contains(reply, <<"interview", WS, "concluded">>)
  \/ Contains(reply, <<"interview", WS, "finished">>)

\* a variant that takes every reply for the end of the interview
IsConcludedAny(reply) == TRUE

\* a variant that knows the first phrase only
IsConcludedOnePhrase(reply) ==
  Contains(Lower(reply), <<"interview", WS, "concluded">>)

\* `"interview concluded" in r.lower() or "interview finished" in r.lower()`
IsConcluded(reply) ==
  \/ Contains(Lower(reply), <<"interview", WS, "concluded">>)
  \/ Contains(Lower(reply), <<"interview", WS, "finished">>)

\* `session_id in session_store`, and the truth of session_store.get(id)
StoreHas(store, sid) == sid \in DOMAIN store

\* `session_store[session_id] = recruiter`
StorePut(store, sid, engine) ==
  [s \in DOMAIN store \cup {sid} |-> IF s = sid THEN engine ELSE store[s]]

\* a variant that leaves the registry as it is
StoreClearNothing(store) == store

\* session_store.clear()
StoreClear(store) == [s \in {} |-> 0]

\* a variant that empties the registry
StoreDelAll(store, sid) == [s \in {} |-> 0]

\* a variant that deletes nothing
StoreDelNothing(store, sid) == store

\* `del session_store[session_id]` on a key that is present
StoreDel(store, sid) == [s \in DOMAIN store \ {sid} |-> store[s]]

InFlight(c) == req[c].pc # "free"

\* a new request takes the lowest free slot
FreeSlot(c) == ~InFlight(c) /\ \A d \in Slots : d < c => InFlight(d)

\* the requests in flight that name session sid
RequestsOn(sid) == {d \in Slots : InFlight(d) /\ req[d].sid = sid}

\* the start handlers that have not generated their session id yet
QueuedStarts == {d \in Slots : req[d].kind = "start" /\ req[d].pc = "queued"}

\* one owner per session: no request in flight names sid
Owned(sid) == RequestsOn(sid) = {}

\* the ids a client can name: those uuid4 has generated, and an id it has
\* not (ids are opaque: no client names one before it is generated)
NamedIds == {UnknownId} \cup 1..(nextId - 1)

\* the response to a request of this kind on this session id, whose body
\* held this text (the role, or the candidate reply)
Response(kind, sid, text, status) ==
  [kind |-> kind, sid |-> sid, text |-> text, status |-> status,
   prev |-> IF last.kind = kind /\ last.sid = sid THEN last.status ELSE 0,
   active |-> 0, detail |-> <<>>]

\* reference counting: an AIRecruiter that neither the store nor a running
\* handler refers to is freed, and its history with it
Collect(history, store, reqs) ==
  [e \in SessionIds |->
     IF \/ \E s \in DOMAIN store : store[s] = e
        \/ \E c \in Slots : reqs[c].pc \in {"await_host", "check"} /\ reqs[c].sid = e
       THEN history[e] ELSE <<>>]

\* a variant that recycles ids: the lowest id that is neither in the
\* registry nor held by a start in flight
NewIdRecycled ==
  LET free == {s \in SessionIds :
                 /\ s \notin DOMAIN session_store
                 /\ \A d \in Slots : ~(req[d].kind = "start" /\ req[d].sid = s)}
  IN  IF free = {} THEN nextId
      ELSE CHOOSE s \in free : \A t \in free : s <= t

\* a variant that hands out the id of the start before once more
NewIdRepeated == IF nextId > 1 THEN nextId - 1 ELSE nextId

\* str(uuid.uuid4()): an id that no call returned before
NewId == nextId

\* ---------------------------------------------------------------- UI client
\* the handlers of app.py that wait for a response of the server
UiWaiting == {"start", "reply", "end_continue", "end_terminate"}

\* what requests hands to a handler: the status and the body's session_id
\* and interviewer_reply; status 0 is the None the helper returns after a
\* timeout or a status of 400 and above (raise_for_status)
NoAnswer == [status |-> 0, session_id |-> 0, interviewer_reply |-> <<>>]

\* a variant of the client's completion test that knows the first phrase only
UiConcludedOnePhrase(reply) ==
  Contains(Lower(reply), <<"interview", WS, "concluded">>)

\* `"interview concluded" in interviewer_reply.lower() or "interview
\* finished" in interviewer_reply.lower()`
UiConcluded(reply) ==
  \/ Contains(Lower(reply), <<"interview", WS, "concluded">>)
  \/ Contains(Lower(reply), <<"interview", WS, "finished">>)

\* handle_end_click, its step 3: interview_active = False, session_id = None
UiEnded ==
  [ui EXCEPT !.pc = "idle", !.slot = 0, !.interview_active = FALSE,
             !.session_id = 0]

\* the rest of a handler once its request is answered by r (or by nothing);
\* gone: the server deleted the session while it produced r.
\* handle_start_click takes a 201, handle_candidate_reply a 200 and its
\* completion test, handle_end_click goes on to terminate_interview after
\* the continue whatever came back, and to its step 3 after the terminate
UiHandles(r, gone) ==
  IF ui.pc = "start"
    THEN IF r.status = 201
           THEN [ui EXCEPT !.pc = "idle", !.slot = 0, !.interview_active = TRUE,
                           !.session_id = r.session_id]
           ELSE [ui EXCEPT !.pc = "idle", !.slot = 0]
  ELSE IF ui.pc = "reply"
    THEN IF r.status = 200
           THEN [ui EXCEPT !.pc = "idle", !.slot = 0,
                           !.interview_active =
                              IF UiConcluded(r.interviewer_reply) THEN FALSE ELSE @,
                           !.answered = IF gone THEN "removed" ELSE "kept"]
           ELSE [ui EXCEPT !.pc = "idle", !.slot = 0]
  ELSE IF ui.pc = "end_continue"
    THEN [ui EXCEPT !.pc = "end_cleanup", !.slot = 0,
                    !.answered = IF r.status = 200
                                   THEN IF gone THEN "removed" ELSE "kept"
                                   ELSE @]
  ELSE IF ui.pc = "end_terminate"
    THEN UiEnded
  ELSE ui

\* the step of the server on slot c answers the request the UI waits for:
\* the response reaches the handler. The body of a 201 or 200 carries the
\* session id and the reply the handler held (InterviewResponse)
UiReceives(c) ==
  IF ui.pc \in UiWaiting /\ ui.slot = c /\ req'[c].pc = "free"
    THEN UiHandles(
           IF last'.status < 400
             THEN [status |-> last'.status, session_id |-> req[c].sid,
                   interviewer_reply |-> req[c].reply]
             ELSE NoAnswer,
           ui.session_id \in DOMAIN session_store \ DOMAIN session_store')
    ELSE ui

\* terminate_interview of the UI was sent on slot c: the membership test ran,
\* and the handler either has its 404 (ignored: step 3) or waits for the del
UiSentTerminate(c) ==
  IF ui.pc = "end_cleanup"
    THEN IF req'[c].pc = "free" THEN UiEnded
         ELSE [ui EXCEPT !.pc = "end_terminate", !.slot = c]
    ELSE ui

\* a client posts /interview/start; the handler waits for the event loop
IssueStart(c) ==
  /\ serving
  /\ UNCHANGED <<serving, removed, cli, ui>>
  /\ FreeSlot(c)
  /\ sent < MaxRequests /\ sent' = sent + 1
  /\ nextId + Cardinality(QueuedStarts) <= MaxSessions
  /\ req' = [req EXCEPT ![c] =
       [NoRequest EXCEPT !.kind = "start", !.pc = "queued"]]
  /\ UNCHANGED <<session_store, conversation_history, nextId, loop, last>>

\* start_interview_endpoint up to the host call: the body is read, uuid4,
\* AIRecruiter(), start_interview appends the synthesized user turn,
\* client.chat is called
BeginStart(c, role) ==
  /\ UNCHANGED <<serving, removed, cli, ui>>
  /\ req[c].kind = "start" /\ req[c].pc = "queued"
  /\ loop = 0
  /\ loop' = c
  /\ nextId' = nextId + 1
  /\ conversation_history' =
       AppendTurn([conversation_history EXCEPT ![NewId] = NewHistory], NewId,
                  Turn("user", StartPrompt(role)))
  /\ req' = [req EXCEPT ![c].sid = NewId, ![c].pc = "await_host", ![c].text = role]
  /\ UNCHANGED <<session_store, last, sent>>

\* a client posts /interview/continue; the handler waits for the event loop
IssueContinue(c, sid, owned) ==
  /\ serving
  /\ UNCHANGED <<serving, removed, cli, ui>>
  /\ FreeSlot(c)
  /\ owned => Owned(sid)
  /\ sent < MaxRequests /\ sent' = sent + 1
  /\ req' = [req EXCEPT ![c] =
       [NoRequest EXCEPT !.kind = "continue", !.pc = "queued", !.sid = sid,
                         !.h0 = IF sid \in SessionIds
                                  THEN Len(conversation_history[sid]) ELSE 0]]
  /\ UNCHANGED <<session_store, conversation_history, nextId, loop, last>>

\* a variant without the `if not recruiter:` test: the call on None raises
\* inside the try and the handler answers 500
BeginContinueUnchecked(c, text) ==
  /\ UNCHANGED <<serving, removed, cli>>
  /\ req[c].kind = "continue" /\ req[c].pc = "queued"
  /\ loop = 0
  /\ LET sid == req[c].sid IN
     IF ~StoreHas(session_store, sid)
       THEN /\ req' = [req EXCEPT ![c] = NoRequest]
            /\ last' = Response(req[c].kind, req[c].sid, text, 500)
            /\ UNCHANGED <<session_store, conversation_history, nextId, loop, sent>>
     ELSE IF IsBlank(text)
       THEN /\ req' = [req EXCEPT ![c].pc = "check", ![c].text = text,
                                  ![c].reply = GuidanceReply]
            /\ loop' = c
            /\ UNCHANGED <<session_store, conversation_history, nextId, last, sent>>
     ELSE /\ conversation_history' =
               AppendTurn(conversation_history, session_store[sid], UserTurn(text))
          /\ req' = [req EXCEPT ![c].pc = "await_host", ![c].text = text]
          /\ loop' = c
          /\ UNCHANGED <<session_store, nextId, last, sent>>
  /\ ui' = UiReceives(c)

\* a variant that awaits the host call: the handler does not keep the event
\* loop while the host works
BeginContinueAwaits(c, text) ==
  /\ UNCHANGED <<serving, removed, cli>>
  /\ req[c].kind = "continue" /\ req[c].pc = "queued"
  /\ loop = 0
  /\ LET sid == req[c].sid IN
     IF ~StoreHas(session_store, sid)
       THEN /\ req' = [req EXCEPT ![c] = NoRequest]
            /\ last' = Response(req[c].kind, req[c].sid, text, 404)
            /\ UNCHANGED <<session_store, conversation_history, nextId, loop, sent>>
     ELSE IF IsBlank(text)
       THEN /\ req' = [req EXCEPT ![c].pc = "check", ![c].text = text,
                                  ![c].reply = GuidanceReply]
            /\ UNCHANGED <<session_store, conversation_history, nextId, loop, last, sent>>
     ELSE /\ conversation_history' =
               AppendTurn(conversation_history, session_store[sid], UserTurn(text))
          /\ req' = [req EXCEPT ![c].pc = "await_host", ![c].text = text]
          /\ UNCHANGED <<session_store, nextId, loop, last, sent>>
  /\ ui' = UiReceives(c)

\* continue_interview_endpoint up to the host call: the body is read,
\* session_store.get, the 404, then continue_interview: the blank test, the
\* user turn, client.chat
BeginContinue(c, text) ==
  /\ UNCHANGED <<serving, removed, cli>>
  /\ req[c].kind = "continue" /\ req[c].pc = "queued"
  /\ loop = 0
  /\ LET sid == req[c].sid IN
     IF ~StoreHas(session_store, sid)
       THEN /\ req' = [req EXCEPT ![c] = NoRequest]
            /\ last' = Response(req[c].kind, req[c].sid, text, 404)
            /\ UNCHANGED <<session_store, conversation_history, nextId, loop, sent>>
     ELSE IF IsBlank(text)
       THEN /\ req' = [req EXCEPT ![c].pc = "check", ![c].text = text,
                                  ![c].reply = GuidanceReply]
            /\ loop' = c
            /\ UNCHANGED <<session_store, conversation_history, nextId, last, sent>>
     ELSE /\ conversation_history' =
               AppendTurn(conversation_history, session_store[sid], UserTurn(text))
          /\ req' = [req EXCEPT ![c].pc = "await_host", ![c].text = text]
          /\ loop' = c
          /\ UNCHANGED <<session_store, nextId, last, sent>>
  /\ ui' = UiReceives(c)

\* the host call ends and _get_response returns
HostReturns(c, out) ==
  /\ UNCHANGED <<serving, removed, cli, ui>>
  /\ req[c].pc = "await_host"
  /\ LET r == GetResponse(conversation_history, req[c].sid, out) IN
       /\ conversation_history' = r.histories
       /\ req' = [req EXCEPT ![c].pc = "check", ![c].reply = r.reply,
                             ![c].host = IF out.kind = "content" /\ out.text = <<>>
                                         THEN "empty" ELSE out.kind]
  /\ UNCHANGED <<session_store, nextId, loop, last, sent>>

\* start_interview_endpoint after start_interview returned: 503, or store and 201
FinishStart(c) ==
  /\ UNCHANGED <<serving, removed, cli>>
  /\ req[c].kind = "start" /\ req[c].pc = "check"
  /\ loop' = 0
  /\ req' = [req EXCEPT ![c] = NoRequest]
  /\ IF IsErrorReply(req[c].reply)
       THEN /\ last' = Response(req[c].kind, req[c].sid, req[c].text, 503)
            /\ UNCHANGED session_store
       ELSE /\ session_store' = StorePut(session_store, req[c].sid, req[c].sid)
            /\ last' = Response(req[c].kind, req[c].sid, req[c].text, 201)
  /\ conversation_history' = Collect(conversation_history, session_store', req')
  /\ UNCHANGED <<nextId, sent>>
  /\ ui' = UiReceives(c)

\* continue_interview_endpoint after continue_interview returned: 503, or the
\* completion test and its del (a KeyError ends in the handler's 500), then 200
FinishContinue(c) ==
  /\ UNCHANGED <<serving, cli>>
  /\ req[c].kind = "continue" /\ req[c].pc = "check"
  /\ loop' = 0
  /\ req' = [req EXCEPT ![c] = NoRequest]
  /\ LET sid == req[c].sid IN
     IF IsErrorReply(req[c].reply)
       THEN /\ last' = Response(req[c].kind, req[c].sid, req[c].text, 503)
            /\ UNCHANGED session_store
     ELSE IF IsConcluded(req[c].reply)
       THEN IF StoreHas(session_store, sid)
              THEN /\ session_store' = StoreDel(session_store, sid)
                   /\ last' = Response(req[c].kind, req[c].sid, req[c].text, 200)
              ELSE /\ last' = [Response(req[c].kind, req[c].sid, req[c].text, 500)
                                 EXCEPT !.detail = InternalErrorDetail(KeyErrorText(sid))]
                   /\ UNCHANGED session_store
     ELSE /\ last' = Response(req[c].kind, req[c].sid, req[c].text, 200)
          /\ UNCHANGED session_store
  /\ removed' = removed \cup (DOMAIN session_store \ DOMAIN session_store')
  /\ conversation_history' = Collect(conversation_history, session_store', req')
  /\ UNCHANGED <<nextId, sent>>
  /\ ui' = UiReceives(c)

\* terminate_interview_endpoint, its membership test: 404, or go on to the del
TerminateTest(c, sid, owned) ==
  /\ serving
  /\ UNCHANGED <<serving, removed, cli>>
  /\ FreeSlot(c)
  /\ owned => Owned(sid)
  /\ sent < MaxRequests /\ sent' = sent + 1
  /\ IF StoreHas(session_store, sid)
       THEN /\ req' = [req EXCEPT ![c] =
                 [NoRequest EXCEPT !.kind = "terminate", !.pc = "del", !.sid = sid]]
            /\ UNCHANGED last
       ELSE /\ last' = Response("terminate", sid, <<>>, 404)
            /\ UNCHANGED req
  /\ UNCHANGED <<session_store, conversation_history, nextId, loop>>
  /\ ui' = UiSentTerminate(c)

\* terminate_interview_endpoint, its del and 204 (a KeyError is unhandled: 500)
TerminateDel(c) ==
  /\ UNCHANGED <<serving, cli>>
  /\ req[c].kind = "terminate" /\ req[c].pc = "del"
  /\ req' = [req EXCEPT ![c] = NoRequest]
  /\ IF StoreHas(session_store, req[c].sid)
       THEN /\ session_store' = StoreDel(session_store, req[c].sid)
            /\ last' = Response(req[c].kind, req[c].sid, req[c].text, 204)
       ELSE /\ last' = [Response(req[c].kind, req[c].sid, req[c].text, 500)
                          EXCEPT !.detail = MiddlewareErrorDetail(KeyErrorText(req[c].sid))]
            /\ UNCHANGED session_store
  /\ removed' = removed \cup (DOMAIN session_store \ DOMAIN session_store')
  /\ conversation_history' = Collect(conversation_history, session_store', req')
  /\ UNCHANGED <<nextId, loop, sent>>
  /\ ui' = UiReceives(c)

\* a variant that reports the sessions ever started
ActiveSessionsStarted == nextId - 1

\* "active_sessions": len(session_store)
ActiveSessions == Cardinality(DOMAIN session_store)

\* health_check: a plain `def` endpoint of one statement, run on a worker
\* thread; it reads len(session_store)
Health ==
  /\ serving
  /\ sent < MaxRequests /\ sent' = sent + 1
  /\ last' = [Response("health", UnknownId, <<>>, 200) EXCEPT
               !.active = ActiveSessions]
  /\ UNCHANGED <<session_store, conversation_history, nextId, req, loop, serving,
                 removed, cli, ui>>

\* lifespan after its yield: session_store.clear(). The server runs this
\* half once, after the requests in flight have been answered, and accepts
\* nothing afterwards
Shutdown ==
  /\ serving
  /\ \A c \in Slots : ~InFlight(c)
  /\ serving' = FALSE
  /\ session_store' = StoreClear(session_store)
  /\ conversation_history' = Collect(conversation_history, session_store', req)
  /\ UNCHANGED <<nextId, req, loop, last, sent, removed, cli, ui>>

\* the steps that do not depend on the discipline the clients follow
Handle(c) ==
  \/ IssueStart(c)
  \/ \E role \in Roles : BeginStart(c, role)
  \/ \E text \in CandidateTexts : BeginContinue(c, text)
  \/ \E out \in HostOutcomes : HostReturns(c, out)
  \/ FinishStart(c)
  \/ FinishContinue(c)
  \/ TerminateDel(c)

\* any client may send any request at any time
Next ==
  \/ \E c \in Slots :
       \/ Handle(c)
       \/ \E sid \in NamedIds : IssueContinue(c, sid, FALSE)
       \/ \E sid \in NamedIds : TerminateTest(c, sid, FALSE)
  \/ Health
  \/ Shutdown

Spec == Init /\ [][Next]_vars

\* one owner per session: a request that names a session is sent only when
\* no other request naming it is in flight
NextOwned ==
  \/ \E c \in Slots :
       \/ Handle(c)
       \/ \E sid \in NamedIds : IssueContinue(c, sid, TRUE)
       \/ \E sid \in NamedIds : TerminateTest(c, sid, TRUE)
  \/ Health
  \/ Shutdown

SpecOwned == Init /\ [][NextOwned]_vars

\* the steps the server takes by itself once a request is accepted: the
\* event loop runs a waiting async handler when it is free and resumes it
\* when the host call has returned, and a worker thread runs terminate's del
HandlerStep(c) ==
  \/ \E role \in Roles : BeginStart(c, role)
  \/ \E text \in CandidateTexts : BeginContinue(c, text)
  \/ FinishStart(c)
  \/ FinishContinue(c)
  \/ TerminateDel(c)

\* one owner per session, and the server keeps running its handlers. The
\* return of the host call is left without fairness: ollama.Client is built
\* and client.chat is called with no timeout, so nothing in the code ends a
\* call that the host never answers
SpecFair ==
  Init /\ [][NextOwned]_vars /\ \A c \in Slots : WF_vars(HandlerStep(c))

\* ---------------------------------------------------------------- command line
\* _get_response on the one engine of the command-line loop
CliGetResponse(history, out) ==
  LET r == GetResponse([e \in {1} |-> history], 1, out)
  IN  [reply |-> r.reply, history |-> r.histories[1]]

\* a variant without upper(): only the capitals are the command
IsEndCommandCaseSensitive(text) == Strip(text) = EndInterview

\* `candidate_response.strip().upper() == "END INTERVIEW"`
IsEndCommand(text) == Upper(Strip(text)) = EndInterview

\* main up to the first host call: AIRecruiter(), start_interview appends the
\* synthesized user turn and calls client.chat
CliStart ==
  /\ cli.pc = "init"
  /\ cli' = [cli EXCEPT
       !.pc = "start_call",
       !.history = Append(NewHistory, Turn("user", StartPrompt(CliRole))),
       !.calls = @ + 1]
  /\ UNCHANGED <<server_vars, ui>>

\* the host call of the command-line loop ends: after start_interview and
\* after a candidate's answer the reply becomes interviewer_prompt and the
\* loop reads a line; after the final prompt the loop breaks
CliHostReturns(out) ==
  /\ cli.pc \in {"start_call", "turn_call", "final_call"}
  /\ LET r == CliGetResponse(cli.history, out) IN
       cli' = [cli EXCEPT
         !.history = r.history,
         !.interviewer_prompt = IF cli.pc = "final_call" THEN @ ELSE r.reply,
         !.pc = IF cli.pc = "final_call" THEN "done" ELSE "input"]
  /\ UNCHANGED <<server_vars, ui>>

\* one round of the `while True` loop: input(), the END INTERVIEW test with
\* its final prompt, the error test on interviewer_prompt, continue_interview
\* up to its host call (or its guidance string for a blank line)
CliInput(text) ==
  /\ cli.pc = "input"
  /\ cli.typed < MaxInputs
  /\ LET read == [cli EXCEPT !.input = text, !.typed = @ + 1] IN
       cli' =
         IF IsEndCommand(text)
           THEN [read EXCEPT !.pc = "final_call",
                             !.history = Append(@, UserTurn(FinalPrompt)),
                             !.calls = @ + 1]
         ELSE IF IsErrorReply(cli.interviewer_prompt)
           THEN [read EXCEPT !.pc = "done"]
         ELSE IF IsBlank(text)
           THEN [read EXCEPT !.interviewer_prompt = GuidanceReply]
         ELSE [read EXCEPT !.pc = "turn_call",
                           !.history = Append(@, UserTurn(text)),
                           !.calls = @ + 1]
  /\ UNCHANGED <<server_vars, ui>>

CliNext ==
  \/ CliStart
  \/ \E out \in HostOutcomes : CliHostReturns(out)
  \/ \E text \in CliInputs : CliInput(text)

\* the command-line program alone: `python recruiter_core.py`
SpecCli == Init /\ [][CliNext]_vars

\* ---------------------------------------------------------------- UI
\* what the user can have in the Job Role box, and in the chat box (the
\* script passes on a text that is not empty)
UiRoles == Roles \cup {<<>>}

UiTexts == CandidateTexts \ {<<>>}

\* the request of a handler posted on slot c with its body
UiPosts(c, kind, sid, text) ==
  /\ serving
  /\ FreeSlot(c)
  /\ sent < MaxRequests /\ sent' = sent + 1
  /\ req' = [req EXCEPT ![c] =
       [NoRequest EXCEPT !.kind = kind, !.pc = "queued", !.sid = sid,
                         !.text = text,
                         !.h0 = IF sid \in SessionIds
                                  THEN Len(conversation_history[sid]) ELSE 0]]
  /\ UNCHANGED <<session_store, conversation_history, nextId, loop, last,
                 serving, removed, cli>>

\* handle_start_click up to its request: the button is there while no
\* interview is active; the handler resets the state and returns on an
\* empty role, otherwise posts /interview/start
UiStartClick(c, role) ==
  /\ ui.pc = "idle" /\ ~ui.interview_active
  /\ LET reset == [ui EXCEPT !.interview_active = FALSE, !.session_id = 0,
                             !.handler = "start", !.answered = "none"] IN
     IF role = <<>>
       THEN /\ c = 1
            /\ ui' = reset
            /\ UNCHANGED <<server_vars, cli>>
       ELSE /\ nextId + Cardinality(QueuedStarts) <= MaxSessions
            /\ UiPosts(c, "start", 0, role)
            /\ ui' = [reset EXCEPT !.pc = "start", !.slot = c]

\* handle_candidate_reply up to its request: the chat box is there while the
\* interview is active
UiReply(c, text) ==
  /\ ui.pc = "idle" /\ ui.interview_active
  /\ UiPosts(c, "continue", ui.session_id, text)
  /\ ui' = [ui EXCEPT !.handler = "reply", !.pc = "reply", !.slot = c,
                      !.answered = "none"]

\* handle_end_click up to its request: the button is there while the
\* interview is active; with a session id the handler posts END INTERVIEW,
\* without one it goes to its step 3
UiEndClick(c) ==
  /\ ui.pc = "idle" /\ ui.interview_active
  /\ LET click == [ui EXCEPT !.handler = "end", !.answered = "none"] IN
     IF ui.session_id # 0
       THEN /\ UiPosts(c, "continue", ui.session_id, EndInterview)
            /\ ui' = [click EXCEPT !.pc = "end_continue", !.slot = c]
       ELSE /\ c = 1
            /\ ui' = [click EXCEPT !.interview_active = FALSE]
            /\ UNCHANGED <<server_vars, cli>>

\* handle_end_click, its step 2: terminate_interview sends the DELETE
UiEndTerminate(c) ==
  /\ ui.pc = "end_cleanup"
  /\ TerminateTest(c, ui.session_id, FALSE)

\* requests gives up (timeout=20, 30 or 10) while the server still works on
\* the request: the helper returns None
UiTimeout ==
  /\ ui.pc \in UiWaiting
  /\ InFlight(ui.slot)
  /\ ui' = UiHandles(NoAnswer, FALSE)
  /\ UNCHANGED <<server_vars, cli>>

\* one browser session of app.py as the only client of the server
UiNext ==
  \/ \E c \in Slots :
       \/ \E role \in UiRoles : UiStartClick(c, role)
       \/ \E text \in UiTexts : UiReply(c, text)
       \/ UiEndClick(c)
       \/ UiEndTerminate(c)
       \/ BeginStart(c, req[c].text)
       \/ BeginContinue(c, req[c].text)
       \/ \E out \in HostOutcomes : HostReturns(c, out)
       \/ FinishStart(c)
       \/ FinishContinue(c)
       \/ TerminateDel(c)
  \/ UiTimeout

SpecUi == Init /\ [][UiNext]_vars

\* ---------------------------------------------------------------- claims
Failures == {"request_error", "exception", "malformed", "empty"}

\* response r answers a request of this kind on this id with this status
Answers(r, kind, sid, status) == r.kind = kind /\ r.sid = sid /\ r.status = status

\* the slot's handler returns in this step
Returns(c) == req[c].pc \in {"check", "del"} /\ req'[c].pc = "free"

\* the turn sequence of the session stored under s
TurnsOf(s) == conversation_history[session_store[s]]

\* every stored entry keeps its engine and its turn sequence in this step
EntriesKept ==
  \A s \in DOMAIN session_store :
     /\ s \in DOMAIN session_store'
     /\ session_store'[s] = session_store[s]
     /\ conversation_history'[session_store[s]] = conversation_history[session_store[s]]

\* C1: in every reachable state, the turns after the system turn of every
\* stored session alternate user, assistant, user, assistant, ...: no two
\* consecutive turns have the same role, host failures included.
C1_TurnsAlternate ==
  \A s \in DOMAIN session_store :
     \A i \in 2..Len(TurnsOf(s)) :
        TurnsOf(s)[i].role = (IF i % 2 = 0 THEN "user" ELSE "assistant")

C3_BlankContinue ==
  [][\A c \in Slots :
       /\ (/\ req[c].kind = "continue" /\ req[c].pc = "queued"
           /\ req'[c].pc # "queued"
           /\ req[c].sid \in DOMAIN session_store
           /\ Strip(req'[c].text) = <<>>)
            => /\ req'[c].pc = "check"
               /\ req'[c].host = "none"
               /\ req'[c].reply = GuidanceReply
               /\ conversation_history' = conversation_history
               /\ session_store' = session_store
       /\ (/\ Returns(c) /\ req[c].kind = "continue"
           /\ Strip(req[c].text) = <<>>)
            => /\ req[c].reply = GuidanceReply
               /\ Answers(last', "continue", req[c].sid, 200)
               /\ conversation_history' = conversation_history
               /\ session_store' = session_store]_vars

\* a whitespace-only continue on a stored session got the guidance string
C3_Witness ==
  \E c \in Slots :
     /\ req[c].kind = "continue" /\ req[c].pc = "check"
     /\ req[c].text = <<WS>>
     /\ req[c].reply = GuidanceReply
     /\ req[c].sid \in DOMAIN session_store
     /\ Len(TurnsOf(req[c].sid)) = req[c].h0

\* C4: at the step that stores a session, its turn sequence is exactly the
\* system instruction, the synthesized user turn naming the role, and an
\* assistant turn holding the non-empty reply that is returned with 201.
C4_StoredWithThreeTurns ==
  [][\A s \in SessionIds :
       (s \notin DOMAIN session_store /\ s \in DOMAIN session_store')
         => \E c \in Slots :
              /\ req[c].kind = "start" /\ req[c].sid = s /\ Returns(c)
              /\ Answers(last', "start", s, 201)
              /\ req[c].reply # <<>>
              /\ conversation_history'[session_store'[s]] =
                   << Turn("system", SYSTEM_PROMPT),
                      Turn("user", StartPrompt(req[c].text)),
                      Turn("assistant", req[c].reply) >>]_vars

\* a start was answered 201 and its session is stored with three turns
C4_Witness ==
  /\ last.kind = "start" /\ last.status = 201
  /\ last.sid \in DOMAIN session_store
  /\ Len(TurnsOf(last.sid)) = 3

\* C5: a start whose host call raises (either way) or returns an empty or
\* malformed response is answered 503; no step of it adds a registry entry
\* or changes a stored entry.
C5_FailedStartNotStored ==
  [][\A c \in Slots :
       /\ (req[c].kind = "start" /\ req'[c] # req[c] /\ ~Returns(c))
            => session_store' = session_store /\ EntriesKept
       /\ (req[c].kind = "start" /\ Returns(c) /\ req[c].host \in Failures)
            => /\ Answers(last', "start", req[c].sid, 503)
               /\ session_store' = session_store
               /\ EntriesKept]_vars

\* the host call of a start raised RequestError while another session is
\* stored, and the new session is not in the registry
C5_Witness ==
  \E c \in Slots :
     /\ req[c].kind = "start" /\ req[c].pc = "check"
     /\ req[c].host = "request_error"
     /\ req[c].sid \notin DOMAIN session_store
     /\ DOMAIN session_store # {}

C7_UnknownSessionNotFound ==
  [][\A c \in Slots :
       (/\ req[c].kind = "continue" /\ req[c].pc = "queued"
        /\ req'[c] # req[c]
        /\ req[c].sid \notin DOMAIN session_store)
         => /\ req'[c].pc = "free"
            /\ Answers(last', "continue", req[c].sid, 404)
            /\ session_store' = session_store
            /\ conversation_history' = conversation_history]_vars

\* a continue was answered 404 while another session is stored
C7_Witness ==
  /\ last.kind = "continue" /\ last.status = 404
  /\ last.sid \notin DOMAIN session_store
  /\ DOMAIN session_store # {}

\* C8: a continue on a stored session with non-blank text whose host call
\* raises (either way) or returns an empty or malformed response is
\* answered 503.
C8_FailedContinueUnavailable ==
  [][\A c \in Slots :
       (req[c].kind = "continue" /\ Returns(c) /\ req[c].host \in Failures)
         => Answers(last', "continue", req[c].sid, 503)]_vars

\* a continue was answered 503 and left its user turn last in the history
C8_Witness ==
  /\ last.kind = "continue" /\ last.status = 503
  /\ last.sid \in DOMAIN session_store
  /\ TurnsOf(last.sid)[Len(TurnsOf(last.sid))].role = "user"

\* C9: when the host call raises (either way) or returns an empty or
\* malformed response, _get_response still returns: a reply that contains
\* "error" in some letter case, with no turn appended to any history.
C9_FailureBecomesErrorReply ==
  [][\A c \in Slots :
       (req[c].pc = "await_host" /\ req'[c] # req[c])
         => /\ req'[c].pc = "check"
            /\ req'[c].host \in Failures
                 => /\ Contains(Lower(req'[c].reply), <<"error">>)
                    /\ conversation_history' = conversation_history]_vars

\* the host call of a continue raised a generic exception and the engine
\* returned its error text
C9_Witness ==
  \E c \in Slots :
     /\ req[c].kind = "continue" /\ req[c].pc = "check"
     /\ req[c].host = "exception"
     /\ req[c].reply = UnexpectedErrorReply(<<"refused">>)

C11_NoUseAfterDelete ==
  [][/\ last'.status # 500
     /\ \A c \in Slots :
          (/\ req[c].kind = "continue" /\ req[c].pc = "await_host"
           /\ req'[c] # req[c]
           /\ conversation_history'[req[c].sid] # conversation_history[req[c].sid])
            => req[c].sid \in DOMAIN session_store]_vars

\* the continue handlers that are between their lookup and their return
RunningContinues ==
  {c \in Slots : req[c].kind = "continue" /\ req[c].pc \in {"await_host", "check"}}

\* C12: continue requests sent at the same time on one session run one
\* after the other: at most one of them is between its lookup and its
\* return; while it waits for the host the history ends in its own user
\* turn; and when the host has answered with content the history ends in its
\* own user turn followed by its own assistant turn.
C12_ContinuesInTurn ==
  /\ \A c, d \in RunningContinues : c = d
  /\ \A c \in RunningContinues :
       LET h == conversation_history[req[c].sid] IN
         /\ (req[c].pc = "await_host")
              => h[Len(h)] = Turn("user", req[c].text)
         /\ (req[c].pc = "check" /\ req[c].host = "content")
              => /\ h[Len(h) - 1] = Turn("user", req[c].text)
                 /\ h[Len(h)] = Turn("assistant", req[c].reply)

\* two continues were sent together on one session: the first was answered
\* 200 and the second has its reply, four turns after the history both saw
\* when they were sent: user, assistant, user, assistant
C12_Witness ==
  \E c \in Slots :
     /\ req[c].kind = "continue" /\ req[c].pc = "check" /\ req[c].host = "content"
     /\ Answers(last, "continue", req[c].sid, 200)
     /\ LET h == conversation_history[req[c].sid] IN
          /\ Len(h) = req[c].h0 + 4
          /\ h[req[c].h0 + 1].role = "user"
          /\ h[req[c].h0 + 2].role = "assistant"
          /\ h[req[c].h0 + 3] = Turn("user", req[c].text)
          /\ h[req[c].h0 + 4] = Turn("assistant", req[c].reply)

\* C13: requests on distinct sessions run in parallel: whenever the host
\* call of one request is pending and a start, or a continue on another
\* session id, waits to begin, that request can take its first step now,
\* without waiting for the pending call.
C13_DistinctSessionsInParallel ==
  \A c, d \in Slots :
     (/\ req[c].pc = "await_host"
      /\ req[d].pc = "queued"
      /\ req[d].sid # req[c].sid)
       => ENABLED (\/ \E role \in Roles : BeginStart(d, role)
                   \/ \E text \in CandidateTexts : BeginContinue(d, text))

\* C14: every start or continue request that was accepted eventually gets
\* its response, whether or not the host ever answers the call.
C14_EveryRequestReturns ==
  \A c \in Slots :
     (req[c].kind \in {"start", "continue"} /\ InFlight(c)) ~> ~InFlight(c)

\* C15: a continue with non-blank text that is answered 200 appended exactly
\* two turns to its session: at its first step a user turn holding the
\* candidate text as sent, at the host's answer an assistant turn holding
\* the host's content, which is the reply it returns; no step of it changes
\* the history otherwise.
C15_ContinueAppendsTwo ==
  [][\A c \in Slots :
       /\ (req[c].kind = "continue" /\ req[c].pc = "queued"
             /\ req'[c].pc = "await_host")
            => conversation_history' =
                 [conversation_history EXCEPT
                    ![req[c].sid] = Append(@, Turn("user", req'[c].text))]
       /\ (req[c].kind = "continue" /\ req[c].pc = "await_host"
             /\ req'[c].pc = "check" /\ req'[c].host = "content")
            => /\ req'[c].reply \in HostContents \ {<<>>}
               /\ conversation_history' =
                    [conversation_history EXCEPT
                       ![req[c].sid] = Append(@, Turn("assistant", req'[c].reply))]
       /\ (req[c].kind = "continue" /\ Returns(c) /\ last'.status = 200
             /\ Strip(req[c].text) # <<>>)
            => /\ req[c].host = "content"
               /\ LET h == conversation_history[req[c].sid] IN
                    /\ Len(h) = req[c].h0 + 2
                    /\ h[req[c].h0 + 1] = Turn("user", req[c].text)
                    /\ h[req[c].h0 + 2] = Turn("assistant", req[c].reply)
               /\ req[c].sid \in DOMAIN session_store'
                    => conversation_history'[req[c].sid] =
                         conversation_history[req[c].sid]]_vars

\* a continue whose text " answer" starts with a blank was answered 200 and
\* the session ends in that text, blank included, and an assistant turn
C15_Witness ==
  /\ last.kind = "continue" /\ last.status = 200
  /\ last.sid \in DOMAIN session_store
  /\ LET h == TurnsOf(last.sid) IN
       /\ Len(h) = 5
       /\ h[4] = Turn("user", <<WS, "answer">>)
       /\ h[5].role = "assistant"

\* C16: in every step, the turn sequence of a session that is stored before
\* and after the step is extended or left alone: it gets no shorter and
\* every turn it had keeps its position, role and text.
C16_AppendOnly ==
  [][\A s \in DOMAIN session_store \cap DOMAIN session_store' :
       LET old == conversation_history[session_store[s]]
           new == conversation_history'[session_store'[s]]
       IN  /\ Len(new) >= Len(old)
           /\ \A i \in 1..Len(old) : new[i] = old[i]]_vars

\* a stored session has grown by two continues since it was stored
C16_Witness ==
  \E s \in DOMAIN session_store : Len(TurnsOf(s)) >= 6

\* C17: in every reachable state, the turn sequence of every engine, stored
\* or still being started, begins with the fixed system instruction, and none
\* of its later turns has role system.
C17_SystemTurnFirstOnly ==
  \A e \in SessionIds :
     LET h == conversation_history[e] IN
       h # <<>> => /\ h[1] = Turn("system", SYSTEM_PROMPT)
                   /\ \A i \in 2..Len(h) : h[i].role # "system"

\* a stored session has taken a continue, and a second session is stored
C17_Witness ==
  /\ Cardinality(DOMAIN session_store) = 2
  /\ \E s \in DOMAIN session_store : Len(TurnsOf(s)) >= 5

\* the content of the latest assistant turn of a turn sequence (<<>>: none)
LatestAssistant(h) ==
  LET at == {i \in 1..Len(h) : h[i].role = "assistant"} IN
    IF at = {} THEN <<>>
    ELSE h[CHOOSE i \in at : \A k \in at : k <= i].content

\* C18: in every reachable state, no stored session has a latest assistant
\* turn that contains "interview concluded" or "interview finished" in any
\* letter case.
C18_NoConcludedSessionStored ==
  \A s \in DOMAIN session_store :
     LET t == Lower(LatestAssistant(TurnsOf(s))) IN
       /\ ~Contains(t, <<"interview", WS, "concluded">>)
       /\ ~Contains(t, <<"interview", WS, "finished">>)

C20_NoCrossSessionEffect ==
  [][serving' = serving =>
     \A s \in SessionIds :
       (\/ (s \in DOMAIN session_store) # (s \in DOMAIN session_store')
        \/ conversation_history'[s] # conversation_history[s])
         => \E c \in Slots :
              /\ req'[c] # req[c]
              /\ req[c].sid = s \/ req'[c].sid = s
              /\ \A d \in Slots \ {c} : req'[d] = req[d]]_vars

\* a continue on one session was answered 200 while another session is
\* stored with the three turns of its start
C20_Witness ==
  /\ Answers(last, "continue", last.sid, 200)
  /\ last.text # <<>>
  /\ \E s \in DOMAIN session_store : s # last.sid /\ Len(TurnsOf(s)) = 3

\* C21: in every step, a session id that leaves the registry leaves it by
\* the del of a terminate on that id answered 204, by a continue on that id
\* answered 200 whose host reply holds "interview concluded" or "interview
\* finished" in any letter case, or by the shutdown; so no guidance reply, no
\* 503 and no health check removes a session.
C21_RemovedOnlyByTerminateCompletionShutdown ==
  [][\A s \in DOMAIN session_store :
       s \notin DOMAIN session_store'
         => \/ serving /\ ~serving'
            \/ \E c \in Slots :
                 /\ req[c].kind = "terminate" /\ req[c].sid = s /\ Returns(c)
                 /\ Answers(last', "terminate", s, 204)
            \/ \E c \in Slots :
                 /\ req[c].kind = "continue" /\ req[c].sid = s /\ Returns(c)
                 /\ Answers(last', "continue", s, 200)
                 /\ req[c].host = "content"
                 /\ \/ Contains(Lower(req[c].reply), <<"interview", WS, "concluded">>)
                    \/ Contains(Lower(req[c].reply), <<"interview", WS, "finished">>)]_vars

\* a health check was answered after a continue that failed with 503: the
\* session is still stored, its history ending in the user turn
C21_Witness ==
  /\ last.kind = "health" /\ last.active = 1
  /\ \E s \in DOMAIN session_store :
       /\ Len(TurnsOf(s)) = 4
       /\ TurnsOf(s)[4].role = "user"

\* C22: a start answered 201 stores its engine under the id it generated,
\* which was not a key before: the registry has exactly that one key more,
\* every entry it had keeps its engine and its turns, and the session_id of
\* the response is the new key.
C22_CreateAddsOneFreshEntry ==
  [][\A c \in Slots :
       (req[c].kind = "start" /\ Returns(c) /\ last'.status = 201)
         => /\ req[c].sid \notin DOMAIN session_store
            /\ DOMAIN session_store' = DOMAIN session_store \cup {req[c].sid}
            /\ Cardinality(DOMAIN session_store') =
                 Cardinality(DOMAIN session_store) + 1
            /\ EntriesKept
            /\ last'.sid = req[c].sid
            /\ conversation_history'[session_store'[last'.sid]][2] =
                 Turn("user", StartPrompt(req[c].text))]_vars

\* a second start was answered 201 and both sessions are stored
C22_Witness ==
  /\ Answers(last, "start", 2, 201)
  /\ DOMAIN session_store = {1, 2}
  /\ Len(TurnsOf(1)) = 3 /\ Len(TurnsOf(2)) = 3

\* a start is answered 201 in this step
CreatedNow ==
  \E c \in Slots : req[c].kind = "start" /\ Returns(c) /\ last'.status = 201

\* a terminate is answered 204, or a continue is answered 200 with a reply
\* that signals completion, in this step
RemovedNow ==
  \E c \in Slots :
     /\ Returns(c)
     /\ \/ req[c].kind = "terminate" /\ last'.status = 204
        \/ /\ req[c].kind = "continue" /\ last'.status = 200
           /\ req[c].host = "content"
           /\ \/ Contains(Lower(req[c].reply), <<"interview", WS, "concluded">>)
              \/ Contains(Lower(req[c].reply), <<"interview", WS, "finished">>)

\* C23: while the application serves, the number of registry entries goes up
\* by one exactly at a start answered 201 and down by one exactly at a
\* terminate answered 204 or a completion, so it is the creates minus the
\* removals; and whenever the latest response is a health response, its
\* active_sessions is the number of registry entries.
C23_HealthCountsEntries ==
  [][serving' =>
       /\ Cardinality(DOMAIN session_store') =
            Cardinality(DOMAIN session_store)
              + (IF CreatedNow THEN 1 ELSE 0) - (IF RemovedNow THEN 1 ELSE 0)
       /\ last'.kind = "health"
            => last'.active = Cardinality(DOMAIN session_store')]_vars

\* a health check answered 1 after two starts, one of which was not stored
C23_Witness ==
  /\ last.kind = "health" /\ last.active = 1
  /\ nextId = 3
  /\ \A c \in Slots : ~InFlight(c)

\* C24: once the shutdown half of the lifespan has run, no session id is in
\* the registry, whatever it held before.
C24_ShutdownClears ==
  ~serving => DOMAIN session_store = {}

\* the application shut down right after a start was answered 201, that is,
\* with that session in the registry
C24_Witness ==
  /\ ~serving
  /\ last.kind = "start" /\ last.status = 201
  /\ DOMAIN session_store = {}

\* C25: the body of a 500 response to a start or a continue does not hold
\* the text of the failure that caused it (here the KeyError of the del).
C25_InternalErrorIsGeneric ==
  (last.status = 500 /\ last.kind \in {"start", "continue"})
    => ~Contains(last.detail, KeyErrorText(last.sid))

\* C26: when a continue on a stored session is answered 503, the session's
\* history holds at most one turn more than when the request was sent, the
\* user turn, and no assistant turn of this call.
C26_UnavailableAppendsNoAssistantTurn ==
  [][\A c \in Slots :
       (/\ req[c].kind = "continue" /\ Returns(c)
        /\ Answers(last', "continue", req[c].sid, 503))
         => LET h == conversation_history[req[c].sid] IN
              /\ Len(h) <= req[c].h0 + 1
              /\ \A i \in (req[c].h0 + 1)..Len(h) : h[i].role # "assistant"]_vars

\* C27: an id whose entry was deleted by a terminate or by a completion is
\* never a key of the registry again; every continue that looks it up from
\* then on is answered 404, and every terminate sent from then on is
\* answered 404 at its membership test and goes no further.
C27_RemovedIdStaysInvalid ==
  [][/\ removed' \cap DOMAIN session_store' = {}
     /\ \A c \in Slots :
          /\ (/\ req[c].kind = "continue" /\ req[c].pc = "queued"
              /\ req'[c] # req[c]
              /\ req[c].sid \in removed)
               => /\ req'[c].pc = "free"
                  /\ Answers(last', "continue", req[c].sid, 404)
          /\ (req[c].pc = "free" /\ req'[c].kind = "terminate")
               => req'[c].sid \notin removed
     /\ (sent' # sent /\ req' = req /\ last'.kind = "terminate")
          => last'.status = 404]_vars

\* a continue on an id that had been stored and removed was answered 404
C27_Witness ==
  /\ last.kind = "continue" /\ last.status = 404
  /\ last.sid \in removed
  /\ last.sid \notin DOMAIN session_store

\* C28: in the command-line loop, when interviewer_prompt holds "error" in
\* some letter case, the round that reads the candidate's next line ends the
\* loop and calls the host no more, whatever the line is.
C28_CliHaltsOnError ==
  [][(/\ cli.pc = "input" /\ cli'.typed # cli.typed
      /\ Contains(Lower(cli.interviewer_prompt), <<"error">>))
       => /\ cli'.pc = "done"
          /\ cli'.calls = cli.calls]_vars

\* C29: in the command-line loop, a line that is END INTERVIEW once its
\* outer blanks are dropped and its letters are capitalised makes the loop
\* call the host exactly once more, with the fixed final prompt as the user
\* turn and not the line itself; when that call returns the loop is over, and
\* nothing is called or read afterwards.
C29_CliEndCommand ==
  [][/\ (/\ cli.pc = "input" /\ cli'.typed # cli.typed
         /\ Upper(Strip(cli'.input)) = EndInterview)
          => /\ cli'.pc = "final_call"
             /\ cli'.calls = cli.calls + 1
             /\ cli'.history = Append(cli.history, Turn("user", FinalPrompt))
     /\ (cli.pc = "final_call" /\ cli' # cli)
          => /\ cli'.pc = "done"
             /\ cli'.calls = cli.calls
             /\ cli'.typed = cli.typed
     /\ cli.pc = "done" => cli' = cli]_vars

\* the candidate answered once, then typed " End interview ": the loop is
\* over after three host calls, the last one on the final prompt
C29_Witness ==
  /\ cli.pc = "done"
  /\ cli.input = <<WS, "End", WS, "interview", WS>>
  /\ cli.typed = 2 /\ cli.calls = 3
  /\ \E i \in 1..Len(cli.history) : cli.history[i] = Turn("user", FinalPrompt)
  /\ \A i \in 1..Len(cli.history) : cli.history[i].content # cli.input

====
